---- MODULE Spec2Model ----
(***************************************************************************)
(* A model of qr-generator.js: the colour arithmetic of                    *)
(* AdvancedQRGenerator (hexToRgb, rgbToHex, invertColor), the option       *)
(* resolution of generateQR and the pixel sweep of applyAdvancedStyling.   *)
(*                                                                         *)
(* JavaScript strings are sequences of one-character strings, so that the  *)
(* regular expression of hexToRgb and the formatting of rgbToHex are       *)
(* computed character by character.  The value undefined is the            *)
(* one-element sequence Undefined; an optional number is the empty set     *)
(* (absent) or a singleton.                                                *)
(***************************************************************************)
EXTENDS Integers, Sequences, FiniteSets, TLC

VARIABLES
    pc,                     \* where the current call stands
    caller,                 \* who awaits applyAdvancedStyling
    hex, rgb, ret,          \* argument and results of the colour functions
    options,                \* the options of generateQR / applyAdvancedStyling
    actualBackgroundColor,  \* third argument of applyAdvancedStyling
    qrOptions,              \* what generateQR hands to QRCode.toBuffer
    buffer,                 \* the encoder's buffer (or the caller's)
    result,                 \* the buffer the call returned
    labels,                 \* the branch the sweep took at each pixel
    log,                    \* console output
    cliPc,                  \* where the command-line action stands
    argv,                   \* the command-line flags
    answers,                \* what the prompts of the interactive mode returned
    exitCode,               \* the status of process.exit, if it was called
    file                    \* what the output path holds

vars == <<pc, caller, hex, rgb, ret, options, actualBackgroundColor, qrOptions,
          buffer, result, labels, log, cliPc, argv, answers, exitCode, file>>

\* the state of the command-line action
cliVars == <<cliPc, argv, answers, exitCode, file>>

-----------------------------------------------------------------------------
(* Bounds of the model *)

\* longest string handed to hexToRgb / invertColor
MaxHexLen == 7

\* most pixels of a raster handed to applyAdvancedStyling directly
MaxPixels == 2

\* modules per side of the symbol the encoder draws
NModules == 1

\* pixels per side of one module in the encoder's raster
ModulePx == 4

\* largest margin a request asks for
MaxMargin == 1

-----------------------------------------------------------------------------
(* JavaScript values *)

Undefined == <<"undefined">>

\* a value the operator || replaces by its right-hand side (undefined, '')
Falsy(s) == s = Undefined \/ s = <<>>

Or(s, dflt) == IF Falsy(s) THEN dflt ELSE s

-----------------------------------------------------------------------------
(* ColorMath *)

HexDigits == <<"0", "1", "2", "3", "4", "5", "6", "7", "8", "9",
               "a", "b", "c", "d", "e", "f">>

\* the i flag of the regular expression: A-F match a-f
toLower(c) ==
    CASE c = "A" -> "a" [] c = "B" -> "b" [] c = "C" -> "c"
      [] c = "D" -> "d" [] c = "E" -> "e" [] c = "F" -> "f"
      [] OTHER -> c

\* the character class [a-f\d] under the i flag
IsHexChar(c) == \E i \in 1..16 : HexDigits[i] = toLower(c)

DigitValue(c) == CHOOSE v \in 0..15 : HexDigits[v + 1] = toLower(c)

\* parseInt(s, 16) of a string of hex digits
RECURSIVE parseInt16(_)
parseInt16(s) ==
    IF s = <<>> THEN 0
    ELSE 16 * parseInt16(SubSeq(s, 1, Len(s) - 1)) + DigitValue(s[Len(s)])

\* /^#?([a-f\d]{2})([a-f\d]{2})([a-f\d]{2})$/i
HexMatch(s) ==
    LET body == IF s # <<>> /\ Head(s) = "#" THEN Tail(s) ELSE s
    IN  IF Len(body) = 6 /\ \A i \in 1..6 : IsHexChar(body[i])
        THEN <<SubSeq(body, 1, 2), SubSeq(body, 3, 4), SubSeq(body, 5, 6)>>
        ELSE <<>>

\* hexToRgb with a pattern that lacks the optional '#'
hexToRgbNoHash(s) ==
    IF Len(s) = 6 /\ \A i \in 1..6 : IsHexChar(s[i])
    THEN <<parseInt16(SubSeq(s, 1, 2)), parseInt16(SubSeq(s, 3, 4)),
           parseInt16(SubSeq(s, 5, 6))>>
    ELSE <<0, 0, 0>>

hexToRgb(s) ==
    LET m == HexMatch(s)
    IN  IF m # <<>>
        THEN <<parseInt16(m[1]), parseInt16(m[2]), parseInt16(m[3])>>
        ELSE <<0, 0, 0>>

\* Number.prototype.toString(16) of a non-negative integer
RECURSIVE toString16(_)
toString16(n) ==
    IF n < 16 THEN <<HexDigits[n + 1]>>
    ELSE toString16(n \div 16) \o <<HexDigits[(n % 16) + 1]>>

\* rgbToHex without the (1 << 24) padding and the slice
rgbToHexUnpadded(r, g, b) ==
    <<"#">> \o toString16(r * 65536 + g * 256 + b)

\* "#" + ((1 << 24) + (r << 16) + (g << 8) + b).toString(16).slice(1)
rgbToHex(r, g, b) ==
    <<"#">> \o Tail(toString16(16777216 + r * 65536 + g * 256 + b))

invertColor(s) ==
    LET c == hexToRgb(s)
    IN  rgbToHex(255 - c[1], 255 - c[2], 255 - c[3])

-----------------------------------------------------------------------------
(* Inputs of the colour functions *)

\* malformed and barely well-formed strings: every string over this alphabet
HexAlphabet == {"#", "F", "g"}

RECURSIVE StringsOfLen(_)
StringsOfLen(n) ==
    IF n = 0 THEN {<<>>}
    ELSE {s \o <<c>> : s \in StringsOfLen(n - 1), c \in HexAlphabet}

\* two hex digits of one channel, in either case
ChannelPairs ==
    { <<"0", "0">>, <<"0", "a">>, <<"7", "f">>, <<"8", "0">>,
      <<"F", "3">>, <<"f", "e">>, <<"F", "F">> }

\* well-formed colours, with and without the leading '#'
ValidColors ==
    {p \o r \o g \o b : p \in {<<>>, <<"#">>},
                        r \in ChannelPairs, g \in ChannelPairs, b \in ChannelPairs}

SampleColors ==
    { <<"#", "2", "1", "9", "6", "F", "3">>,
      <<"#", "D", "E", "6", "9", "0", "C">>,
      <<"#", "d", "e", "6", "9", "0", "c">>,
      <<"#", "4", "C", "A", "F", "5", "0">> }

HexInputs ==
    UNION {StringsOfLen(n) : n \in 0..MaxHexLen}
        \cup ValidColors \cup SampleColors \cup {Undefined}

-----------------------------------------------------------------------------
(* State *)

NoOptions ==
    [foregroundColor |-> Undefined, backgroundColor |-> Undefined,
     transparent |-> FALSE, moduleShape |-> Undefined,
     margin |-> {}, version |-> {}]

NoQrOptions == [margin |-> {}, dark |-> <<>>, light |-> <<>>, version |-> {}]

NoBuffer == [png |-> FALSE, width |-> 0, height |-> 0, data |-> <<>>]

\* no command line: the class is used as a library
NoArgv ==
    [margin |-> <<>>, foregroundColor |-> <<>>, backgroundColor |-> <<>>,
     moduleShape |-> <<>>, qrVersion |-> <<>>, terminal |-> FALSE,
     interactive |-> FALSE]

NoAnswers ==
    [margin |-> {}, foregroundColor |-> <<>>, backgroundColor |-> <<>>,
     moduleShape |-> <<>>, version |-> {}, showTerminal |-> FALSE,
     saveFile |-> FALSE]

Idle ==
    /\ pc = "idle"
    /\ caller = "none"
    /\ rgb = <<>>
    /\ ret = <<>>
    /\ options = NoOptions
    /\ actualBackgroundColor = <<>>
    /\ qrOptions = NoQrOptions
    /\ buffer = NoBuffer
    /\ result = NoBuffer
    /\ labels = <<>>
    /\ log = <<>>
    /\ cliPc = "none"
    /\ argv = NoArgv
    /\ answers = NoAnswers
    /\ exitCode = {}
    /\ file = {}

-----------------------------------------------------------------------------
(* Calls of the colour functions *)

InitColor == Idle /\ hex \in HexInputs

CallHexToRgb ==
    /\ UNCHANGED cliVars
    /\ pc = "idle"
    /\ rgb' = hexToRgb(hex)
    /\ pc' = "hexToRgb"
    /\ UNCHANGED <<caller, hex, ret, options, actualBackgroundColor, qrOptions,
                   buffer, result, labels, log>>

CallInvertColor ==
    /\ UNCHANGED cliVars
    /\ pc = "idle"
    /\ ret' = invertColor(hex)
    /\ pc' = "invertColor"
    /\ UNCHANGED <<caller, hex, rgb, options, actualBackgroundColor, qrOptions,
                   buffer, result, labels, log>>

\* invertColor applied to the result of invertColor
CallInvertColorAgain ==
    /\ UNCHANGED cliVars
    /\ pc = "invertColor"
    /\ ret' = invertColor(ret)
    /\ pc' = "invertColorTwice"
    /\ UNCHANGED <<caller, hex, rgb, options, actualBackgroundColor, qrOptions,
                   buffer, result, labels, log>>

NextColor == CallHexToRgb \/ CallInvertColor \/ CallInvertColorAgain

SpecColor == InitColor /\ [][NextColor]_vars

-----------------------------------------------------------------------------
(* applyAdvancedStyling: the pixel sweep *)

\* A pixel is <<R, G, B, A>>; a decoded raster holds width * height pixels,
\* row by row (idx = (width * y + x) << 2 in the byte array).

Black == <<"#", "0", "0", "0", "0", "0", "0">>
White == <<"#", "F", "F", "F", "F", "F", "F">>

\* The radicand of fgDistance / bgDistance.  The code compares the square
\* roots; Math.sqrt is strictly increasing on these integers (at most
\* 3 * 255^2, neighbouring roots differ by more than 0.001), so the roots
\* compare as the radicands do.
Distance2(p, c) ==
    (p[1] - c[1]) * (p[1] - c[1]) + (p[2] - c[2]) * (p[2] - c[2])
        + (p[3] - c[3]) * (p[3] - c[3])

\* the comparison with <= in place of <
IsForegroundOrTie(p, foregroundRgb, backgroundRgb) ==
    Distance2(p, foregroundRgb) <= Distance2(p, backgroundRgb)

\* if (fgDistance < bgDistance)
IsForeground(p, foregroundRgb, backgroundRgb) ==
    Distance2(p, foregroundRgb) < Distance2(p, backgroundRgb)

\* a loop body that clears only the alpha of a transparent background pixel
StylePixelAlphaOnly(p, foregroundRgb, backgroundRgb, transparent) ==
    IF IsForeground(p, foregroundRgb, backgroundRgb)
    THEN <<foregroundRgb[1], foregroundRgb[2], foregroundRgb[3], 255>>
    ELSE IF transparent
         THEN <<p[1], p[2], p[3], 0>>
         ELSE <<backgroundRgb[1], backgroundRgb[2], backgroundRgb[3], 255>>

\* a loop body that clears every background pixel, whatever options.transparent
StylePixelAlwaysClear(p, foregroundRgb, backgroundRgb, transparent) ==
    IF IsForeground(p, foregroundRgb, backgroundRgb)
    THEN <<foregroundRgb[1], foregroundRgb[2], foregroundRgb[3], 255>>
    ELSE <<0, 0, 0, 0>>

\* the body of the two loops: what one pixel becomes
StylePixel(p, foregroundRgb, backgroundRgb, transparent) ==
    IF IsForeground(p, foregroundRgb, backgroundRgb)
    THEN <<foregroundRgb[1], foregroundRgb[2], foregroundRgb[3], 255>>
    ELSE IF transparent
         THEN <<0, 0, 0, 0>>
         ELSE <<backgroundRgb[1], backgroundRgb[2], backgroundRgb[3], 255>>

\* const foregroundRgb = this.hexToRgb(options.foregroundColor || '#000000')
ForegroundRgb(opts) == hexToRgb(Or(opts.foregroundColor, Black))

\* const backgroundRgb = this.hexToRgb(actualBackgroundColor)
BackgroundRgb(bg) == hexToRgb(bg)

\* the raster after both loops have run over every pixel
Sweep(png, opts, bg) ==
    LET foregroundRgb == ForegroundRgb(opts)
        backgroundRgb == BackgroundRgb(bg)
    IN  [png EXCEPT !.data =
            [i \in 1..(png.width * png.height) |->
                StylePixel(png.data[i], foregroundRgb, backgroundRgb,
                           opts.transparent)]]

\* which branch of the loop body each pixel took
SweepLabels(png, opts, bg) ==
    LET foregroundRgb == ForegroundRgb(opts)
        backgroundRgb == BackgroundRgb(bg)
    IN  [i \in 1..(png.width * png.height) |->
            IF IsForeground(png.data[i], foregroundRgb, backgroundRgb)
            THEN "FOREGROUND" ELSE "BACKGROUND"]

\* The try block of applyAdvancedStyling holds `return new Promise(...)` with
\* no await: the function has left the try block when the promise settles,
\* so its catch clause sees no rejection of that promise.
StylingAwaited == FALSE

Warning == "Falling back to standard QR generation..."

\* the callback of png.parse is entered with an error: reject(error)
PngError ==
    /\ UNCHANGED cliVars
    /\ pc = "parsing"
    /\ IF StylingAwaited
       THEN \* the catch clause: log and return the buffer
            /\ log' = log \o <<Warning>>
            /\ result' = buffer
            /\ pc' = IF caller = "generateQR" THEN "returned" ELSE "resolved"
       ELSE \* the rejection reaches the caller; generateQR wraps it (line 76)
            /\ pc' = IF caller = "generateQR" THEN "thrown" ELSE "rejected"
            /\ UNCHANGED <<log, result>>
    /\ UNCHANGED <<caller, hex, rgb, ret, options, actualBackgroundColor,
                   qrOptions, buffer, labels>>

\* the callback is entered with the decoded raster: sweep, write, resolve
PngParsed ==
    /\ UNCHANGED cliVars
    /\ pc = "parsing"
    /\ buffer.png
    /\ result' = Sweep(buffer, options, actualBackgroundColor)
    /\ labels' = SweepLabels(buffer, options, actualBackgroundColor)
    /\ pc' = IF caller = "generateQR" THEN "returned" ELSE "resolved"
    /\ UNCHANGED <<caller, hex, rgb, ret, options, actualBackgroundColor,
                   qrOptions, buffer, log>>

\* the sweep runs and PNG.sync.write throws inside the callback, so neither
\* resolve nor reject is called.  If png.parse called back from within the
\* executor, the Promise constructor turns the exception into a rejection,
\* which, like that of PngError, passes the catch clause by; if it called
\* back from the event loop, the exception is uncaught.
PngWriteThrows ==
    /\ UNCHANGED cliVars
    /\ pc = "parsing"
    /\ buffer.png
    /\ labels' = SweepLabels(buffer, options, actualBackgroundColor)
    /\ \E inExecutor \in BOOLEAN :
          pc' = IF ~inExecutor THEN "uncaught"
                ELSE IF caller = "generateQR" THEN "thrown" ELSE "rejected"
    /\ UNCHANGED <<caller, hex, rgb, ret, options, actualBackgroundColor,
                   qrOptions, buffer, result, log>>

-----------------------------------------------------------------------------
(* applyAdvancedStyling called on its own *)

PixelPool ==
    { <<0, 0, 0, 255>>, <<255, 255, 255, 255>>, <<0, 0, 127, 255>>,
      <<0, 0, 128, 0>>, <<33, 150, 243, 128>>, <<222, 105, 12, 255>>,
      <<128, 128, 128, 0>>, <<0, 0, 127, 0>> }

StyleForegrounds ==
    { Undefined,
      <<"#", "2", "1", "9", "6", "F", "3">>,
      <<"f", "f", "f", "f", "f", "f">>,
      <<"#", "8", "0", "8", "0", "8", "0">>,
      <<"#", "g", "g", "g", "g", "g", "g">> }

StyleBackgrounds ==
    { <<"#", "f", "f", "f", "f", "f", "f">>,
      <<"#", "0", "0", "0", "0", "f", "e">>,
      <<"#", "d", "e", "6", "9", "0", "c">>,
      <<"#", "0", "0", "0", "0", "0", "0">>,
      <<"#", "7", "f", "7", "f", "7", "f">> }

\* bytes that are no PNG
Garbage == [png |-> FALSE, width |-> 0, height |-> 0, data |-> <<>>]

\* PNG images of one row of pixels
StyleBuffers ==
    {[png |-> TRUE, width |-> Len(d), height |-> 1, data |-> d] :
        d \in UNION {[1..n -> PixelPool] : n \in 1..MaxPixels}}

CallApplyAdvancedStyling ==
    /\ UNCHANGED cliVars
    /\ pc = "idle"
    /\ \E b \in StyleBuffers \cup {Garbage},
          fg \in StyleForegrounds, bg \in StyleBackgrounds, t \in BOOLEAN :
            /\ buffer' = b
            /\ options' = [NoOptions EXCEPT !.foregroundColor = fg,
                                            !.transparent = t]
            /\ actualBackgroundColor' = bg
    /\ caller' = "direct"
    /\ pc' = "parsing"
    /\ UNCHANGED <<hex, rgb, ret, qrOptions, result, labels, log>>

InitStyle == Idle /\ hex = <<>>

NextStyle == CallApplyAdvancedStyling \/ PngParsed \/ PngError \/ PngWriteThrows

SpecStyle == InitStyle /\ [][NextStyle]_vars

-----------------------------------------------------------------------------
(* generateQR *)

DefaultMargin == 4

MaxQrVersion == 40

Square == <<"square">>
Circle == <<"circle">>

\* the string the command line passes as background with -b transparent
TransparentWord == <<"t", "r", "a", "n", "s", "p", "a", "r", "e", "n", "t">>

\* options.margin || 4: an absent margin and the margin 0 are both falsy
MarginOr(margin, dflt) == IF margin = {} \/ margin = {0} THEN {dflt} ELSE margin

\* if (options.version && options.version > 1) qrOptions.version = options.version
VersionToPass(version) == IF \E v \in version : v # 0 /\ v > 1 THEN version ELSE {}

\* a resolution that forgets the transparent flag
BackgroundColorAsGiven(opts) == Or(opts.backgroundColor, White)

\* const backgroundColorToUse = options.transparent ? invertColor(fg) : (bg || '#FFFFFF')
BackgroundColorToUse(opts) ==
    IF opts.transparent
    THEN invertColor(Or(opts.foregroundColor, Black))
    ELSE Or(opts.backgroundColor, White)

\* the qrOptions literal and the version assignment after it
QrOptionsOf(opts) ==
    [margin  |-> MarginOr(opts.margin, DefaultMargin),
     dark    |-> Or(opts.foregroundColor, Black),
     light   |-> BackgroundColorToUse(opts),
     version |-> VersionToPass(opts.version)]

\* options.transparent || (options.moduleShape && options.moduleShape !== 'square')
NeedsStyling(opts) ==
    opts.transparent \/ (~Falsy(opts.moduleShape) /\ opts.moduleShape # Square)

RequestForegrounds == { Undefined, <<"#", "2", "1", "9", "6", "F", "3">> }

RequestBackgrounds == { Undefined, <<"#", "2", "1", "9", "6", "F", "3">> }

\* The options of a request.  Colours are well-formed or left out; the word
\* 'transparent' comes as background only with the transparent flag, as the
\* command line sets them (line 371), and then always.
Requests ==
    {o \in [foregroundColor : RequestForegrounds,
            backgroundColor : RequestBackgrounds \cup {TransparentWord},
            transparent : BOOLEAN,
            moduleShape : {Undefined, Square, Circle},
            margin : {{}} \cup {{x} : x \in 0..MaxMargin},
            version : {{}, {0}, {1}, {MaxQrVersion}}] :
        /\ o.backgroundColor = TransparentWord => o.transparent
        /\ o.backgroundColor = Undefined => ~o.transparent}

\* generateQR up to `await QRCode.toBuffer(data, qrOptions)`
GenerateQR ==
    /\ UNCHANGED cliVars
    /\ pc = "idle"
    /\ \E opts \in Requests :
          /\ options' = opts
          /\ qrOptions' = QrOptionsOf(opts)
    /\ pc' = "encoding"
    /\ UNCHANGED <<caller, hex, rgb, ret, actualBackgroundColor, buffer,
                   result, labels, log>>

-----------------------------------------------------------------------------
(* The encoder (QRCode.toBuffer), at its interface: a square raster of two
   flat opaque colours, one ModulePx x ModulePx block per module, the symbol
   surrounded by `margin` modules of the light colour. *)

\* the encoder's reading of a six-digit colour: its channels, alpha 255
EncoderColor(c) == hexToRgb(c) \o <<255>>

MarginOf(qo) == CHOOSE m \in qo.margin : TRUE

RasterSide(qo) == (NModules + 2 * MarginOf(qo)) * ModulePx

\* the symbols the encoder may draw: grids of dark and light modules whose
\* first module, a corner of a finder pattern, is dark
Symbols == {sym \in [1..NModules -> [1..NModules -> BOOLEAN]] : sym[1][1]}

\* the module column (row) of pixel column (row) x, counted from the symbol
ModuleAt(x, margin) == (x \div ModulePx) - margin

InSymbol(x, y, margin) ==
    /\ ModuleAt(x, margin) \in 0..(NModules - 1)
    /\ ModuleAt(y, margin) \in 0..(NModules - 1)

EncoderRaster(sym, qo) ==
    LET margin == MarginOf(qo)
        side   == RasterSide(qo)
        dark   == EncoderColor(qo.dark)
        light  == EncoderColor(qo.light)
    IN  [png    |-> TRUE,
         width  |-> side,
         height |-> side,
         data   |->
            [i \in 1..(side * side) |->
                LET x == (i - 1) % side
                    y == (i - 1) \div side
                IN  IF InSymbol(x, y, margin)
                       /\ sym[ModuleAt(y, margin) + 1][ModuleAt(x, margin) + 1]
                    THEN dark
                    ELSE light]]

\* QRCode.toBuffer resolves; generateQR styles the buffer or returns it
ToBufferResolved ==
    /\ UNCHANGED cliVars
    /\ pc = "encoding"
    /\ \E sym \in Symbols : buffer' = EncoderRaster(sym, qrOptions)
    /\ IF NeedsStyling(options)
       THEN /\ caller' = "generateQR"
            /\ actualBackgroundColor' = qrOptions.light
            /\ pc' = "parsing"
            /\ UNCHANGED result
       ELSE /\ result' = buffer'
            /\ pc' = "returned"
            /\ UNCHANGED <<caller, actualBackgroundColor>>
    /\ UNCHANGED <<hex, rgb, ret, options, qrOptions, labels, log>>

\* QRCode.toBuffer rejects: throw new Error(`QR generation failed: ...`)
ToBufferRejected ==
    /\ UNCHANGED cliVars
    /\ pc = "encoding"
    /\ pc' = "thrown"
    /\ UNCHANGED <<caller, hex, rgb, ret, options, actualBackgroundColor,
                   qrOptions, buffer, result, labels, log>>

Init == Idle /\ hex = <<>>

Next ==
    \/ GenerateQR
    \/ ToBufferResolved
    \/ ToBufferRejected
    \/ PngParsed
    \/ PngError
    \/ PngWriteThrows

Spec == Init /\ [][Next]_vars

-----------------------------------------------------------------------------
(* The command line: program.action and interactiveMode, one action per
   turn of the event loop.  exitCode is empty until process.exit is called;
   file is empty until the output path is written. *)

Banner      == "QR Code Generator"
InteractiveBanner == "QR Code Generator - Interactive Mode"
TerminalView == "QR Code (Terminal View)"
Generating  == "Generating QR code..."
Saved       == "QR code saved"
Information == "QR Code Information"
Success     == "QR code generated successfully!"
ErrorGeneration == "Error: QR generation failed"
ErrorSave   == "Error: Failed to save file"
ErrorDisplay == "Error: terminal display failed"
ErrorPrompt == "Error: prompt failed"
UncaughtException == "Uncaught Error"

\* StrWhiteSpaceChar, the white space and line terminators parseInt skips.
\* A character that has no literal here is written as its code point.
WhiteSpace ==
    {"\t", "\n", "U+000B", "\f", "\r", " ", "U+00A0", "U+1680",
     "U+2000", "U+2001", "U+2002", "U+2003", "U+2004", "U+2005", "U+2006",
     "U+2007", "U+2008", "U+2009", "U+200A",
     "U+2028", "U+2029", "U+202F", "U+205F", "U+3000", "U+FEFF"}

RECURSIVE TrimStart(_)
TrimStart(s) ==
    IF s # <<>> /\ Head(s) \in WhiteSpace THEN TrimStart(Tail(s)) ELSE s

\* the digits of the radix a string starts with
RECURSIVE LeadingDigits(_, _)
LeadingDigits(s, radix) ==
    IF s # <<>> /\ IsHexChar(Head(s)) /\ DigitValue(Head(s)) < radix
    THEN <<Head(s)>> \o LeadingDigits(Tail(s), radix)
    ELSE <<>>

RECURSIVE DigitsValue(_, _)
DigitsValue(s, radix) ==
    IF s = <<>> THEN 0
    ELSE radix * DigitsValue(SubSeq(s, 1, Len(s) - 1), radix)
            + DigitValue(s[Len(s)])

\* parseInt(s) with no radix: white space skipped, a sign read, 0x or 0X
\* taken as the mark of radix 16, then the digits up to the first character
\* that is none; NaN (no number) if there is no digit
parseInt(s) ==
    LET t == TrimStart(s)
        negative == t # <<>> /\ Head(t) = "-"
        u == IF t # <<>> /\ Head(t) \in {"+", "-"} THEN Tail(t) ELSE t
        prefixed == Len(u) >= 2 /\ u[1] = "0" /\ u[2] \in {"x", "X"}
        radix == IF prefixed THEN 16 ELSE 10
        digits == LeadingDigits(IF prefixed THEN SubSeq(u, 3, Len(u)) ELSE u,
                                radix)
    IN  IF digits = <<>> THEN {}
        ELSE IF negative THEN {0 - DigitsValue(digits, radix)}
        ELSE {DigitsValue(digits, radix)}

\* the qrOptions literal of the action: the options it hands to generateQR
CliOptions(flags) ==
    [foregroundColor |-> flags.foregroundColor,
     backgroundColor |-> flags.backgroundColor,
     transparent     |-> flags.backgroundColor = TransparentWord,
     moduleShape     |-> flags.moduleShape,
     margin          |-> parseInt(flags.margin),
     version         |-> parseInt(flags.qrVersion)]

\* the flags of a run with a payload and without -i: the defaults of lines
\* 341-348 and some others
CliArgs ==
    [margin : {<<"4">>} \cup {<<"U+000B", "+", HexDigits[m + 1]>> : m \in 1..MaxMargin},
     foregroundColor : {Black},
     backgroundColor : {White, TransparentWord},
     moduleShape : {Square, Circle},
     qrVersion : {<<"1">>, <<"0", "x", "1", "0">>},
     terminal : BOOLEAN,
     interactive : {FALSE}]

\* a run with -i, without a payload or without arguments: the flags are
\* not looked at
InteractiveArgs ==
    [margin : {<<"1">>},
     foregroundColor : {Black},
     backgroundColor : {White},
     moduleShape : {Square},
     qrVersion : {<<"1">>},
     terminal : {FALSE},
     interactive : {TRUE}]

\* 'transparent' in upper case
TransparentUpper == <<"T", "R", "A", "N", "S", "P", "A", "R", "E", "N", "T">>

\* input.toLowerCase() === 'transparent': each character is the letter of
\* 'transparent' at its place or its capital, the only characters that
\* toLowerCase maps to that letter
LowersToTransparent(input) ==
    /\ Len(input) = Len(TransparentWord)
    /\ \A i \in 1..Len(TransparentWord) :
          input[i] \in {TransparentWord[i], TransparentUpper[i]}

\* input.replace('#', ''): the first '#' is taken out
RECURSIVE RemoveFirstHash(_)
RemoveFirstHash(s) ==
    IF s = <<>> THEN <<>>
    ELSE IF Head(s) = "#" THEN Tail(s)
    ELSE <<Head(s)>> \o RemoveFirstHash(Tail(s))

\* filter of the foreground prompt
ForegroundFilter(input) ==
    IF input # <<>> /\ Head(input) = "#" THEN input
    ELSE <<"#">> \o RemoveFirstHash(input)

\* filter of the background prompt
BackgroundFilter(input) ==
    IF LowersToTransparent(input) THEN TransparentWord
    ELSE IF input # <<>> /\ Head(input) = "#" THEN input
    ELSE <<"#">> \o RemoveFirstHash(input)

\* validate of the margin prompt
MinPromptMargin == 1
MaxPromptMargin == 20
MarginValid(input) == input >= MinPromptMargin /\ input <= MaxPromptMargin

\* validate of the version prompt
VersionValid(input) == input >= 0 /\ input <= MaxQrVersion

TypedForegrounds == {Black, <<"2", "1", "9", "6", "F", "3">>}

TypedBackgrounds ==
    {White, <<"T", "r", "a", "n", "s", "p", "a", "r", "e", "n", "t">>}

\* what the first prompt can resolve with
Answers ==
    [margin : {{m} : m \in {n \in (0..MaxMargin) \cup {DefaultMargin} :
                                MarginValid(n)}},
     foregroundColor : {ForegroundFilter(t) : t \in TypedForegrounds},
     backgroundColor : {BackgroundFilter(t) : t \in TypedBackgrounds},
     moduleShape : {Square, Circle},
     version : {{v} : v \in {n \in {0, MaxQrVersion + 1} : VersionValid(n)}},
     showTerminal : BOOLEAN,
     saveFile : BOOLEAN]

\* the options generateQR is given in interactive mode: the answers, with
\* answers.transparent set at line 316
InteractiveOptions(a) ==
    [foregroundColor |-> a.foregroundColor,
     backgroundColor |-> a.backgroundColor,
     transparent     |-> a.backgroundColor = TransparentWord,
     moduleShape     |-> a.moduleShape,
     margin          |-> a.margin,
     version         |-> a.version]

\* a call of generateQR, which runs up to its await of the encoder
CallsGenerateQR(opts) ==
    /\ options' = opts
    /\ qrOptions' = QrOptionsOf(opts)
    /\ pc' = "encoding"

\* the catch clause that leaves out process.exit(1)
ReportOnly(message) ==
    /\ log' = log \o <<message>>
    /\ cliPc' = "done"
    /\ UNCHANGED exitCode

\* catch (error) { console.error(...); process.exit(1); }
ReportAndExit(message) ==
    /\ log' = log \o <<message>>
    /\ exitCode' = {1}
    /\ cliPc' = "exited"

\* the variables of generateQR and the sweep that the command line leaves
\* alone when it calls neither
callVars == <<caller, hex, rgb, ret, actualBackgroundColor, buffer, result,
              labels>>

\* program.action with a payload and without -i: banner, then the terminal
\* preview or generateQR, up to the first await
CliAction ==
    /\ cliPc = "start"
    /\ ~argv.interactive
    /\ IF argv.terminal
       THEN /\ log' = log \o <<Banner>>
            /\ cliPc' = "displaying"
            /\ UNCHANGED <<options, qrOptions, pc>>
       ELSE /\ log' = log \o <<Banner, Generating>>
            /\ cliPc' = "generating"
            /\ CallsGenerateQR(CliOptions(argv))
    /\ UNCHANGED <<callVars, argv, answers, exitCode, file>>

\* interactiveMode, entered from line 353 or line 394, up to its first prompt
interactiveMode ==
    /\ cliPc = "start"
    /\ argv.interactive
    /\ log' = log \o <<InteractiveBanner>>
    /\ cliPc' = "prompting"
    /\ UNCHANGED <<callVars, options, qrOptions, pc, argv, answers, exitCode,
                   file>>

\* lines 309-318 of interactiveMode, once the prompts are through
InteractiveGenerates(a) ==
    /\ log' = log \o <<Generating>>
    /\ IF a.showTerminal
       THEN /\ cliPc' = "displaying"
            /\ UNCHANGED <<options, qrOptions, pc>>
       ELSE /\ cliPc' = "generating"
            /\ CallsGenerateQR(InteractiveOptions(a))

\* the first prompt resolves
InteractivePrompted ==
    /\ cliPc = "prompting"
    /\ \E a \in Answers :
          /\ answers' = a
          /\ IF a.saveFile
             THEN /\ cliPc' = "promptingFile"
                  /\ UNCHANGED <<log, options, qrOptions, pc>>
             ELSE InteractiveGenerates(a)
    /\ UNCHANGED <<callVars, argv, exitCode, file>>

\* the prompt for the file name resolves
InteractiveFilePrompted ==
    /\ cliPc = "promptingFile"
    /\ InteractiveGenerates(answers)
    /\ UNCHANGED <<callVars, argv, answers, exitCode, file>>

\* a prompt rejects
InteractivePromptRejected ==
    /\ cliPc \in {"prompting", "promptingFile"}
    /\ cliPc' = "promptRejected"
    /\ UNCHANGED <<callVars, options, qrOptions, pc, log, argv, answers,
                   exitCode, file>>

\* displayTerminal: QRCode.toString calls back with the string
CliDisplayResolved ==
    /\ cliPc = "displaying"
    /\ log' = log \o <<TerminalView>>
    /\ cliPc' = "displayed"
    /\ UNCHANGED <<callVars, options, qrOptions, pc, argv, answers, exitCode,
                   file>>

\* displayTerminal: QRCode.toString calls back with an error
CliDisplayRejected ==
    /\ cliPc = "displaying"
    /\ cliPc' = "displayRejected"
    /\ UNCHANGED <<callVars, options, qrOptions, pc, log, argv, answers,
                   exitCode, file>>

\* the await of displayTerminal resumes: on to generateQR
CliDisplayed ==
    /\ cliPc = "displayed"
    /\ cliPc' = "generating"
    /\ IF argv.interactive
       THEN /\ CallsGenerateQR(InteractiveOptions(answers))
            /\ UNCHANGED log
       ELSE /\ CallsGenerateQR(CliOptions(argv))
            /\ log' = log \o <<Generating>>
    /\ UNCHANGED <<callVars, argv, answers, exitCode, file>>

\* the run saves: always from the flags, in interactive mode if asked to
Saves == ~argv.interactive \/ answers.saveFile

\* the await of generateQR resumes with the buffer: saveQR writes the file,
\* or, with nothing to save, the information and the success line follow
CliGenerated ==
    /\ cliPc = "generating"
    /\ pc = "returned"
    /\ IF Saves
       THEN /\ file' = {result}
            /\ log' = log \o <<Saved>>
            /\ cliPc' = "saved"
       ELSE /\ log' = log \o <<Information, Success>>
            /\ cliPc' = "done"
            /\ UNCHANGED file
    /\ UNCHANGED <<callVars, options, qrOptions, pc, argv, answers, exitCode>>

\* the await of generateQR resumes with the buffer and fs.writeFileSync
\* throws, leaving no file or a truncated one; saveQR rejects
CliSaveFailed ==
    /\ cliPc = "generating"
    /\ pc = "returned"
    /\ Saves
    /\ file' \in {file, {[result EXCEPT !.png = FALSE, !.data = <<>>]}}
    /\ cliPc' = "saveRejected"
    /\ UNCHANGED <<callVars, options, qrOptions, pc, log, argv, answers,
                   exitCode>>

\* the await of saveQR resumes: information and success
CliSaved ==
    /\ cliPc = "saved"
    /\ log' = log \o <<Information, Success>>
    /\ cliPc' = "done"
    /\ UNCHANGED <<callVars, options, qrOptions, pc, argv, answers, exitCode,
                   file>>

\* an await of the try block has a rejection to throw
Rejected ==
    \/ cliPc \in {"promptRejected", "displayRejected", "saveRejected"}
    \/ cliPc = "generating" /\ pc = "thrown"

\* error.message of that rejection
RejectionMessage ==
    CASE cliPc = "promptRejected" -> ErrorPrompt
      [] cliPc = "displayRejected" -> ErrorDisplay
      [] cliPc = "saveRejected" -> ErrorSave
      [] OTHER -> ErrorGeneration

\* the catch clause of the action, and of interactiveMode
CliCatch ==
    /\ Rejected
    /\ ReportAndExit(RejectionMessage)
    /\ UNCHANGED <<callVars, options, qrOptions, pc, argv, answers, file>>

\* the exception PNG.sync.write threw from the event loop has no handler:
\* the process reports it and ends with status 1
CliUncaught ==
    /\ cliPc = "generating"
    /\ pc = "uncaught"
    /\ log' = log \o <<UncaughtException>>
    /\ exitCode' = {1}
    /\ cliPc' = "exited"
    /\ UNCHANGED <<callVars, options, qrOptions, pc, argv, answers, file>>

InitCli ==
    /\ pc = "idle"
    /\ caller = "none"
    /\ hex = <<>>
    /\ rgb = <<>>
    /\ ret = <<>>
    /\ options = NoOptions
    /\ actualBackgroundColor = <<>>
    /\ qrOptions = NoQrOptions
    /\ buffer = NoBuffer
    /\ result = NoBuffer
    /\ labels = <<>>
    /\ log = <<>>
    /\ cliPc = "start"
    /\ argv \in CliArgs \cup InteractiveArgs
    /\ answers = NoAnswers
    /\ exitCode = {}
    /\ file = {}

NextCli ==
    \/ CliAction
    \/ interactiveMode
    \/ InteractivePrompted
    \/ InteractiveFilePrompted
    \/ InteractivePromptRejected
    \/ CliDisplayResolved
    \/ CliDisplayRejected
    \/ CliDisplayed
    \/ ToBufferResolved
    \/ ToBufferRejected
    \/ PngParsed
    \/ PngError
    \/ PngWriteThrows
    \/ CliGenerated
    \/ CliSaveFailed
    \/ CliSaved
    \/ CliCatch
    \/ CliUncaught

\* the event loop runs the catch clause once an awaited promise has
\* rejected, and the process ends on an uncaught exception; nothing is
\* assumed about when, or whether, a promise settles
SpecCli ==
    /\ InitCli
    /\ [][NextCli]_vars
    /\ WF_vars(CliCatch)
    /\ WF_vars(CliUncaught)

-----------------------------------------------------------------------------
(* Properties *)

\* the value of each hex digit, in either case
HexValue ==
    ("0" :> 0 @@ "1" :> 1 @@ "2" :> 2 @@ "3" :> 3 @@ "4" :> 4 @@ "5" :> 5 @@
     "6" :> 6 @@ "7" :> 7 @@ "8" :> 8 @@ "9" :> 9 @@
     "a" :> 10 @@ "b" :> 11 @@ "c" :> 12 @@ "d" :> 13 @@ "e" :> 14 @@ "f" :> 15 @@
     "A" :> 10 @@ "B" :> 11 @@ "C" :> 12 @@ "D" :> 13 @@ "E" :> 14 @@ "F" :> 15)

LowerDigit == <<"0", "1", "2", "3", "4", "5", "6", "7", "8", "9",
                "a", "b", "c", "d", "e", "f">>

\* the digits of s once an optional leading '#' is dropped
DigitsOf(s) == IF Len(s) = 7 /\ s[1] = "#" THEN SubSeq(s, 2, 7) ELSE s

\* six hex digits with an optional leading '#'
WellFormedColor(s) ==
    /\ Len(DigitsOf(s)) = 6
    /\ \A i \in 1..6 : DigitsOf(s)[i] \in DOMAIN HexValue

\* the channel values a well-formed colour denotes
ChannelsOf(s) ==
    [k \in 1..3 |-> 16 * HexValue[DigitsOf(s)[2 * k - 1]] + HexValue[DigitsOf(s)[2 * k]]]

\* '#' followed by the six digits of s in lower case
CanonicalColor(s) ==
    <<"#">> \o [i \in 1..6 |-> LowerDigit[HexValue[DigitsOf(s)[i]] + 1]]

\* C6 as stated: for every well-formed colour c (leading '#' optional, digits
\* in either case), invertColor(invertColor(c)) is the string c itself.
C6_RoundTripIdentity ==
    (pc = "invertColorTwice" /\ WellFormedColor(hex)) => ret = hex

\* C6, amended: for every well-formed colour c, invertColor(invertColor(c)) is
\* '#' followed by the six digits of c in lower case; it denotes the colour of
\* c, and it is the string c exactly when c is already written that way.
C6_RoundTripCanonical ==
    (pc = "invertColorTwice" /\ WellFormedColor(hex)) =>
        /\ ret = CanonicalColor(hex)
        /\ WellFormedColor(ret) /\ ChannelsOf(ret) = ChannelsOf(hex)
        /\ (ret = hex <=> hex = CanonicalColor(hex))

\* an upper-case colour has come back from two inversions in lower case
C6_Witness ==
    /\ pc = "invertColorTwice"
    /\ hex = <<"#", "2", "1", "9", "6", "F", "3">>
    /\ ret = <<"#", "2", "1", "9", "6", "f", "3">>

\* C7: hexToRgb returns for every string: (0,0,0) when the string is not six
\* hex digits with an optional leading '#', and otherwise the three channel
\* values in R,G,B order, each in 0..255.
C7_HexToRgbTotal ==
    pc = "hexToRgb" =>
        IF WellFormedColor(hex)
        THEN /\ rgb = ChannelsOf(hex)
             /\ \A k \in 1..3 : rgb[k] \in 0..255
        ELSE rgb = <<0, 0, 0>>

\* a string of five digits has been answered with black
C7_Witness ==
    /\ pc = "hexToRgb"
    /\ hex = <<"#", "F", "F", "F", "F", "F">>
    /\ rgb = <<0, 0, 0>>

\* the colour a string denotes to the sweep: its channels, black if malformed
ReferenceRgb(s) == IF WellFormedColor(s) THEN ChannelsOf(s) ELSE <<0, 0, 0>>

RequestedForeground == IF Falsy(options.foregroundColor) THEN <<0, 0, 0>>
                       ELSE ReferenceRgb(options.foregroundColor)

\* C2: with transparent set, after the sweep every pixel is in one of two
\* states: a BACKGROUND pixel is (0,0,0,0), a FOREGROUND pixel carries the
\* requested foreground colour with alpha 255.
C2_TransparentTwoStates ==
    (pc = "resolved" /\ options.transparent) =>
        /\ Len(result.data) = Len(buffer.data)
        /\ \A i \in 1..Len(buffer.data) :
              \/ labels[i] = "BACKGROUND" /\ result.data[i] = <<0, 0, 0, 0>>
              \/ /\ labels[i] = "FOREGROUND"
                 /\ result.data[i] = RequestedForeground \o <<255>>

\* a transparent sweep has produced both kinds of pixel, from pixels whose
\* own alpha was neither
C2_Witness ==
    /\ pc = "resolved"
    /\ options.transparent
    /\ options.foregroundColor = <<"#", "2", "1", "9", "6", "F", "3">>
    /\ buffer.data = <<<<33, 150, 243, 128>>, <<222, 105, 12, 255>>>>
    /\ result.data = <<<<33, 150, 243, 255>>, <<0, 0, 0, 0>>>>

\* P lies strictly on F's side of the plane halfway between F and B
StrictlyCloserTo(p, f, b) ==
    2 * (p[1] * (b[1] - f[1]) + p[2] * (b[2] - f[2]) + p[3] * (b[3] - f[3]))
        < (b[1] * b[1] + b[2] * b[2] + b[3] * b[3])
            - (f[1] * f[1] + f[2] * f[2] + f[3] * f[3])

\* C5: a pixel is labelled FOREGROUND iff it is strictly closer to the
\* foreground reference than to the background reference, BACKGROUND
\* otherwise (ties included); its alpha plays no part.
C5_NearestReference ==
    pc \in {"resolved", "uncaught"} =>
        /\ Len(labels) = Len(buffer.data)
        /\ \A i \in 1..Len(buffer.data) :
              /\ labels[i] \in {"FOREGROUND", "BACKGROUND"}
              /\ labels[i] = "FOREGROUND" <=>
                    StrictlyCloserTo(buffer.data[i], RequestedForeground,
                                     ReferenceRgb(actualBackgroundColor))
        /\ \A i, j \in 1..Len(buffer.data) :
              SubSeq(buffer.data[i], 1, 3) = SubSeq(buffer.data[j], 1, 3)
                  => labels[i] = labels[j]

\* a pixel halfway between black and #0000fe is BACKGROUND at either alpha,
\* next to a pixel one step closer to the background
C5_Witness ==
    /\ pc = "resolved"
    /\ Falsy(options.foregroundColor)
    /\ actualBackgroundColor = <<"#", "0", "0", "0", "0", "f", "e">>
    /\ buffer.data = <<<<0, 0, 127, 255>>, <<0, 0, 127, 0>>>>
    /\ labels = <<"BACKGROUND", "BACKGROUND">>

\* C1: when decoding or re-encoding fails inside applyAdvancedStyling reached
\* from generateQR, generateQR still returns: the encoder's buffer unchanged,
\* with a warning logged; the request never ends in an exception.  Stated on
\* every state in which generateQR has handed the encoder's buffer to
\* applyAdvancedStyling: the call is still parsing, or it has returned the
\* styled raster, or it has returned the buffer and logged the warning.
C1_StylingFailureFallsBack ==
    (caller = "generateQR" /\ pc # "parsing") =>
        /\ pc = "returned"
        /\ \/ result = Sweep(buffer, options, actualBackgroundColor)
           \/ result = buffer /\ log = <<Warning>>

\* the colour generateQR is expected to hand over as the light colour
ExpectedForeground == IF Falsy(options.foregroundColor) THEN Black
                      ELSE options.foregroundColor

\* two lower-case hex digits of 255 - v
InverseDigits(v) ==
    <<LowerDigit[((255 - v) \div 16) + 1], LowerDigit[((255 - v) % 16) + 1]>>

ExpectedBackground ==
    IF options.transparent
    THEN <<"#">> \o InverseDigits(ChannelsOf(ExpectedForeground)[1])
                 \o InverseDigits(ChannelsOf(ExpectedForeground)[2])
                 \o InverseDigits(ChannelsOf(ExpectedForeground)[3])
    ELSE IF Falsy(options.backgroundColor) THEN White
         ELSE options.backgroundColor

\* C3: with transparent not set, every pixel of the raster generateQR
\* returns has alpha 255, whether the styling pass ran (moduleShape not
\* square) or the encoder's buffer was returned as it came.
C3_OpaqueAlpha ==
    (pc = "returned" /\ ~options.transparent) =>
        /\ Len(result.data) = result.width * result.height
        /\ Len(result.data) > 0
        /\ \A i \in 1..Len(result.data) : result.data[i][4] = 255

\* an opaque circle request has been through the styling pass
C3_Witness ==
    /\ pc = "returned"
    /\ caller = "generateQR"
    /\ ~options.transparent
    /\ options.moduleShape = Circle
    /\ \E i \in 1..Len(result.data) : labels[i] = "BACKGROUND"
    /\ \E i \in 1..Len(result.data) : labels[i] = "FOREGROUND"

\* C4: the light colour handed to the encoder, which is also the
\* background reference of the sweep, is the inverse of the foreground when
\* transparent is set, else the caller's background, white if there is none;
\* the dark colour is the caller's foreground, black if there is none.
C4_ResolvedBackground ==
    pc # "idle" =>
        /\ qrOptions.dark = ExpectedForeground
        /\ qrOptions.light = ExpectedBackground
        /\ caller = "generateQR" =>
              /\ actualBackgroundColor = ExpectedBackground
              /\ BackgroundRgb(actualBackgroundColor)
                    = ReferenceRgb(ExpectedBackground)

\* a transparent blue request is being styled against orange
C4_Witness ==
    /\ pc = "parsing"
    /\ caller = "generateQR"
    /\ options.transparent
    /\ options.foregroundColor = <<"#", "2", "1", "9", "6", "F", "3">>
    /\ qrOptions.light = <<"#", "d", "e", "6", "9", "0", "c">>
    /\ actualBackgroundColor = <<"#", "d", "e", "6", "9", "0", "c">>

\* the centre of pixel (x, y) of a module's ModulePx x ModulePx box lies
\* outside the circle inscribed in the box (coordinates doubled)
OutsideInscribedCircle(x, y) ==
    (2 * x + 1 - ModulePx) * (2 * x + 1 - ModulePx)
        + (2 * y + 1 - ModulePx) * (2 * y + 1 - ModulePx) > ModulePx * ModulePx

\* C8: with moduleShape circle, the pixels of a module's bounding box that
\* lie outside the inscribed circle and were classified FOREGROUND are not
\* left as opaque foreground in the raster generateQR returns.
C8_CircleMasksCorners ==
    (pc = "returned" /\ caller = "generateQR" /\ options.moduleShape = Circle) =>
        \A i \in 1..Len(result.data) :
            LET x == (i - 1) % result.width
                y == (i - 1) \div result.width
            IN  ( /\ InSymbol(x, y, MarginOf(qrOptions))
                  /\ OutsideInscribedCircle(x % ModulePx, y % ModulePx)
                  /\ labels[i] = "FOREGROUND" )
                => result.data[i] # ForegroundRgb(options) \o <<255>>

\* C9: every requested version 1..40 is handed to the encoder; no version
\* is handed over only when the request has version 0 or none.
C9_VersionPassed ==
    pc # "idle" =>
        /\ \A v \in options.version :
              v \in 1..MaxQrVersion => qrOptions.version = {v}
        /\ (options.version = {} \/ options.version = {0})
              => qrOptions.version = {}

\* C10: every requested margin, 0 included, is handed to the encoder; the
\* margin is 4 only when the request has none.
C10_MarginPassed ==
    pc # "idle" =>
        /\ options.margin # {} => qrOptions.margin = options.margin
        /\ options.margin = {} => qrOptions.margin = {DefaultMargin}

\* what the console has shown
Printed == {log[i] : i \in 1..Len(log)}

\* QRCode.toBuffer rejected: generateQR threw before any buffer existed
EncoderFailed == pc = "thrown" /\ ~buffer.png

\* generateQR failed, in the encoder or in the styling pass after it
GenerationFailed == pc \in {"thrown", "uncaught"}

\* the terminal preview failed
DisplayFailed == cliPc = "displayRejected" \/ ErrorDisplay \in Printed

\* the file write failed
WriteFailed == cliPc = "saveRejected" \/ ErrorSave \in Printed

Diagnostics ==
    {ErrorGeneration, ErrorSave, ErrorDisplay, ErrorPrompt, UncaughtException}

ExitedOnError ==
    /\ cliPc = "exited"
    /\ exitCode = {1}
    /\ log[Len(log)] \in Diagnostics

\* C11: in the command-line flow, with flags or interactive, once the
\* encoder or the file write has failed, the run ends with a diagnostic
\* printed and exit status 1; the success message is not printed after the
\* failure, and after an encoder failure (of the image, or of the terminal
\* preview before it) no output file is written.
C11_FailureIsFatal ==
    /\ []((GenerationFailed \/ DisplayFailed)
            => (file = {} /\ Success \notin Printed))
    /\ [](WriteFailed => Success \notin Printed)
    /\ (GenerationFailed \/ DisplayFailed \/ WriteFailed) ~> ExitedOnError
    /\ [](Printed \cap Diagnostics # {} => ExitedOnError)
    /\ [][cliPc = "exited" => (log' = log /\ file' = file)]_vars

\* a run has ended on an encoder failure with status 1 and no file
C11_Witness ==
    /\ EncoderFailed
    /\ cliPc = "exited"
    /\ exitCode = {1}
    /\ file = {}
    /\ log[Len(log)] = ErrorGeneration

\* the request names one colour as foreground and as background
SameColourRequested ==
    /\ ~Falsy(options.foregroundColor)
    /\ options.foregroundColor = options.backgroundColor

\* an opaque pixel of colour c
Opaque(c) == <<c[1], c[2], c[3], 255>>

\* C12 as stated: when the requested foregroundColor equals the requested
\* backgroundColor, every pixel is classified BACKGROUND and the raster
\* returned is uniform: the background colour when transparent is false,
\* fully transparent when transparent is true.
C12_SameColourUniform ==
    (pc = "returned" /\ SameColourRequested) =>
        /\ \A i \in 1..Len(labels) : labels[i] = "BACKGROUND"
        /\ \A i \in 1..Len(result.data) :
              IF options.transparent
              THEN result.data[i][4] = 0
              ELSE result.data[i] = Opaque(ReferenceRgb(options.backgroundColor))

\* C12: when the requested foregroundColor equals the requested
\* backgroundColor and transparent is false, no pixel is classified
\* FOREGROUND and every pixel of the raster returned is the opaque
\* background colour.  When transparent is true the requested background is
\* not used: the sweep runs against the inverse of the foreground, the
\* pixels of the dark modules are classified FOREGROUND and stay opaque in
\* the foreground colour, and only the other pixels are fully transparent.
C12_SameColourOpaqueUniform ==
    (pc = "returned" /\ SameColourRequested) =>
        LET foreground == Opaque(RequestedForeground)
            background == Opaque(ReferenceRgb(options.backgroundColor))
        IN  IF options.transparent
            THEN /\ caller = "generateQR"
                 /\ Len(labels) = Len(result.data)
                 /\ \E i \in 1..Len(labels) : labels[i] = "FOREGROUND"
                 /\ \A i \in 1..Len(labels) :
                       /\ labels[i] = "FOREGROUND"
                            <=> buffer.data[i] = foreground
                       /\ result.data[i] =
                            IF labels[i] = "FOREGROUND"
                            THEN foreground
                            ELSE <<0, 0, 0, 0>>
            ELSE /\ \A i \in 1..Len(labels) : labels[i] = "BACKGROUND"
                 /\ Len(result.data) > 0
                 /\ \A i \in 1..Len(result.data) :
                       result.data[i] = background

\* an opaque blue-on-blue circle request has been through the sweep
C12_Witness ==
    /\ pc = "returned"
    /\ caller = "generateQR"
    /\ SameColourRequested
    /\ ~options.transparent
    /\ options.moduleShape = Circle
    /\ Len(labels) = Len(result.data)
    /\ Len(labels) > 0
    /\ \A i \in 1..Len(labels) : labels[i] = "BACKGROUND"

\* C13 as stated: for the foreground F of a request and the background B
\* resolved for it, a pixel that is exactly F is classified FOREGROUND and
\* a pixel that is exactly B is classified BACKGROUND.
C13_ExactColoursSeparate ==
    (pc = "returned" /\ caller = "generateQR") =>
        \A i \in 1..Len(labels) :
            /\ buffer.data[i] = Opaque(RequestedForeground)
                  => labels[i] = "FOREGROUND"
            /\ buffer.data[i] = Opaque(ReferenceRgb(ExpectedBackground))
                  => labels[i] = "BACKGROUND"

\* C13: for the foreground F of a request and the background B resolved
\* for it, a pixel that is exactly B is classified BACKGROUND, and a pixel
\* that is exactly F is classified FOREGROUND exactly when F and B are
\* different colours.  In transparent mode B is the inverse of F, the two
\* differ in every channel, and the F pixels are FOREGROUND; with
\* transparent false a request whose background is its foreground has its
\* F pixels classified BACKGROUND.
C13_ExactColours ==
    (pc = "returned" /\ caller = "generateQR") =>
        LET F == RequestedForeground
            B == ReferenceRgb(ExpectedBackground)
            exactlyF == Opaque(F)
            exactlyB == Opaque(B)
            differ == F # B
        IN  /\ Len(labels) = Len(buffer.data)
            /\ options.transparent =>
                  \A k \in 1..3 : F[k] + B[k] = 255 /\ F[k] # B[k]
            /\ \A i \in 1..Len(labels) :
                  /\ buffer.data[i] = exactlyB => labels[i] = "BACKGROUND"
                  /\ buffer.data[i] = exactlyF
                        => (labels[i] = "FOREGROUND" <=> differ)

\* a transparent request naming blue twice has had its blue pixels
\* classified FOREGROUND and its orange pixels BACKGROUND
C13_Witness ==
    /\ pc = "returned"
    /\ caller = "generateQR"
    /\ options.transparent
    /\ SameColourRequested
    /\ \E i \in 1..Len(labels) :
          /\ buffer.data[i] = Opaque(RequestedForeground)
          /\ labels[i] = "FOREGROUND"
    /\ \E i \in 1..Len(labels) :
          /\ buffer.data[i] = Opaque(ReferenceRgb(ExpectedBackground))
          /\ labels[i] = "BACKGROUND"

====
